---- MODULE Spec2Model ----
(***************************************************************************)
(* A model of IllumioService (src/app/services/illumio_service.py): the    *)
(* create / read / delete / sync workflows it sequences over the PCE REST  *)
(* client and the secrets vault.                                           *)
(*                                                                         *)
(* Every awaited client call is one step: the backend acts and the call    *)
(* completes with a value or an exception (the clients are awaited, as the *)
(* test doubles of src/tests/conftest.py are).  Between two awaited calls  *)
(* of one invocation the other worker may take steps.  The local work      *)
(* between two awaits (validation, model construction, the scan of a list) *)
(* belongs to the step of the await that precedes it; validation before    *)
(* the first call belongs to the first step.                               *)
(*                                                                         *)
(* Strings that the code inspects (names, namespaces) are sequences of     *)
(* one-character strings; hrefs and endpoints are sequences of path        *)
(* segments.                                                               *)
(*                                                                         *)
(* The specifications share the variables: Spec runs the cluster           *)
(* operations, SpecLabel runs get_or_create_label, SpecSync runs the       *)
(* workload-profile operations with a second worker that syncs             *)
(* concurrently, SpecUpdate runs update_cluster_labels, SpecCli runs the   *)
(* create-cluster and delete-cluster commands, and SpecRequest and         *)
(* SpecVault run the two clients under their retry decorator.  SpecRace    *)
(* and SpecLabelRace run two creations of one cluster name and of one      *)
(* label at the same time, SpecDelivery sends create_cluster's POST        *)
(* through the retrying client to a PCE that may have processed a request  *)
(* whose answer was lost, and SpecSyncRepeat lets one caller repeat        *)
(* sync_namespace_labels, with weak fairness for the caller.  The PCE of   *)
(* the service-level specifications accepts every well-formed request      *)
(* that does not fail in transport and echoes what it was sent; it keeps   *)
(* no uniqueness rule of its own.                                          *)
(***************************************************************************)
EXTENDS Naturals, Sequences, FiniteSets

VARIABLES
    clusters,   \* PCE: the container-cluster records
    nextId,     \* PCE: the next resource id it assigns
    vault,      \* SecretStore: path -> secret data
    labels,     \* PCE: the label records
    profiles,   \* PCE: namespace -> number of workload profiles of the cluster
    pc,         \* worker -> where its invocation stands
    op,         \* worker -> the operation it runs
    arg,        \* worker -> the operation's arguments
    loc,        \* worker -> the invocation's local variables
    log,        \* worker -> the client calls the invocation has issued, in order
    out         \* worker -> how the invocation ended

vars == <<clusters, nextId, vault, labels, profiles, pc, op, arg, loc, log, out>>

Workers == {"w1", "w2"}

(***************************************************************************)
(* Bounds of the model.                                                    *)
(***************************************************************************)
\* the PCE assigns at most this many cluster ids in one run
MaxClusters == 2

(***************************************************************************)
(* Strings and names.                                                      *)
(***************************************************************************)
LowerAlnum == {"a", "b", "1"}

Hyphen == "-"

Newline == "\n"

\* [a-z0-9][a-z0-9-]*[a-z0-9] over the whole of s
NameCore(s) ==
    /\ Len(s) >= 2
    /\ s[1] \in LowerAlnum
    /\ s[Len(s)] \in LowerAlnum
    /\ \A i \in 2..(Len(s) - 1) : s[i] \in LowerAlnum \cup {Hyphen}

\* re.match(r"^[a-z0-9][a-z0-9-]*[a-z0-9]$", s): "$" matches at the end of the
\* string and also just before a newline that ends the string.
MatchesNamePattern(s) ==
    \/ NameCore(s)
    \/ /\ Len(s) >= 1
       /\ s[Len(s)] = Newline
       /\ NameCore(SubSeq(s, 1, Len(s) - 1))

is_valid_cluster_name_lax(name) == Len(name) >= 1 /\ name[1] \in LowerAlnum

is_valid_cluster_name(name) == MatchesNamePattern(name)

is_valid_namespace_lax(namespace) == \A i \in 1..Len(namespace) : namespace[i] # " "

is_valid_namespace(namespace) == MatchesNamePattern(namespace)

\* href.split('/')[-1]
LastSegment(href) == href[Len(href)]

ProfileNameBare(cluster_name) == cluster_name

\* f"{cluster_name}-profile"
ProfileName(cluster_name) == cluster_name \o <<"-", "p", "r", "o", "f", "i", "l", "e">>

\* f"clusters/{cluster.name}"
ClusterSecretPath(cluster_name) == <<"clusters", cluster_name>>

EnforcementModes == {"visibility_only", "selective", "full"}

(***************************************************************************)
(* Values.                                                                 *)
(***************************************************************************)
None == [none |-> TRUE]

NoOut == [kind |-> "none"]

Returned(v) == [kind |-> "return", val |-> v]

Raised(e, cause) == [kind |-> "raise", exc |-> e, cause |-> cause]

Listed(items) == [items |-> items]

NoLoc ==
    [cluster |-> None, profile_id |-> "", pairing_key |-> "", resp |-> None,
     existing |-> {}, todo |-> {}]

\* what BaseAPIClient.request raises: APIError for a failure status, the
\* TypeError in which its handling of a 401 ends (see handle_response below),
\* APIConnectionError for a transport or decoding failure
APIFailures == {"APIError", "TypeError", "APIConnectionError"}

\* what VaultClient raises
VaultFailures == {"VaultError"}

PceCall(method, endpoint, a) ==
    [sys |-> "pce", method |-> method, endpoint |-> endpoint, arg |-> a]

VaultCall(method, path) ==
    [sys |-> "vault", method |-> method, endpoint |-> path, arg |-> <<>>]

(***************************************************************************)
(* The inputs the workers draw.                                            *)
(***************************************************************************)
ValidNames == { <<"a", "b">>, <<"a", "-", "1">> }

InvalidNames ==
    { <<>>, <<"a">>, <<"-", "a">>, <<"a", "-">>, <<"A", "b">>, <<"a", " ", "b">>,
      <<"a", Newline>> }

ClusterNameInputs == ValidNames \cup InvalidNames

\* the names looked up: the valid ones and one that names no cluster
LookupNameInputs == ValidNames \cup { <<"a">> }

Tokens == {"tok"}

\* a response whose container_cluster_token is null (the field is Optional)
NoneToken == "<None>"

ActivationCodes == {"k1", "k2"}

PairingProfileIds == {"p7", "p8"}

OrgId == "1"

ClusterHref(id) == <<"orgs", OrgId, "container_clusters", id>>

PairingProfileHref(pid) == <<"orgs", OrgId, "pairing_profiles", pid>>

(***************************************************************************)
(* Worker bookkeeping.                                                     *)
(***************************************************************************)
Begin(w, operation, a) ==
    /\ pc[w] = "idle"
    /\ op' = [op EXCEPT ![w] = operation]
    /\ arg' = [arg EXCEPT ![w] = a]

Issue(w, call) == log' = [log EXCEPT ![w] = Append(log[w], call)]

Finish(w, result) ==
    /\ pc' = [pc EXCEPT ![w] = "done"]
    /\ out' = [out EXCEPT ![w] = result]

Goto(w, label) ==
    /\ pc' = [pc EXCEPT ![w] = label]
    /\ UNCHANGED out

\* the invocation is over; the worker may start another
Return(w) ==
    /\ pc[w] = "done"
    /\ pc' = [pc EXCEPT ![w] = "idle"]
    /\ op' = [op EXCEPT ![w] = "none"]
    /\ arg' = [arg EXCEPT ![w] = None]
    /\ loc' = [loc EXCEPT ![w] = NoLoc]
    /\ log' = [log EXCEPT ![w] = <<>>]
    /\ out' = [out EXCEPT ![w] = NoOut]
    /\ UNCHANGED <<clusters, nextId, vault, labels, profiles>>

(***************************************************************************)
(* The PCE's answer to a name-filtered list query: the filter is advisory, *)
(* so the list holds every record of that name and may hold others, in any *)
(* order.                                                                  *)
(***************************************************************************)
Range(s) == { s[i] : i \in 1..Len(s) }

ExactMatches(name) == { c \in clusters : c.name = name }

ListResponses(name) ==
    { s \in UNION { [1..n -> clusters] : n \in 0..Cardinality(clusters) } :
        /\ \A i, j \in 1..Len(s) : i # j => s[i] # s[j]
        /\ ExactMatches(name) \subseteq Range(s) }

\* the record the PCE keeps of a cluster it creates from the POST's payload; a
\* listing does not show the pairing token
NewCluster(id, name, mode) ==
    [href |-> ClusterHref(id), name |-> name, enforcement_mode |-> mode,
     container_cluster_token |-> NoneToken]

\* the creation response carries the pairing token
CreationResponse(c, tok) == [c EXCEPT !.container_cluster_token = tok]

(***************************************************************************)
(* get_cluster: the scan of the list and the model built from the match.   *)
(***************************************************************************)
\* the last record of that name instead of the first
RECURSIVE LastExact(_, _)
LastExact(resp, cluster_name) ==
    IF resp = <<>> THEN None
    ELSE IF LastExact(Tail(resp), cluster_name) # None
         THEN LastExact(Tail(resp), cluster_name)
    ELSE IF Head(resp).name = cluster_name THEN Head(resp)
    ELSE None

RECURSIVE FirstExact(_, _)
FirstExact(resp, cluster_name) ==
    IF resp = <<>> THEN None
    ELSE IF Head(resp).name = cluster_name THEN Head(resp)
    ELSE FirstExact(Tail(resp), cluster_name)

get_cluster_result_trusting(resp, cluster_name) ==
    IF resp = <<>> THEN Returned(None) ELSE Returned(Head(resp))

\* lines 77-80, and the except clause of lines 82-83 for a record that
\* ContainerCluster rejects
get_cluster_result(resp, cluster_name) ==
    LET c == FirstExact(resp, cluster_name) IN
    IF c = None THEN Returned(None)
    ELSE IF is_valid_cluster_name(c.name) THEN Returned(c)
    ELSE Raised("IllumioError", "ValidationError")

get_cluster_failure_as_absent(e) == Returned(None)

\* lines 82-83: except Exception as e: raise IllumioError(...)
get_cluster_failure(e) == Raised("IllumioError", e)

get_cluster(w, cluster_name) ==
    /\ Begin(w, "get_cluster", [name |-> cluster_name])
    /\ Issue(w, PceCall("GET", <<"container_clusters">>, cluster_name))
    /\ \/ \E e \in APIFailures :
            /\ Finish(w, get_cluster_failure(e))
            /\ UNCHANGED loc
       \/ \E resp \in ListResponses(cluster_name) :
            /\ loc' = [loc EXCEPT ![w].resp = Listed(resp)]
            /\ Finish(w, get_cluster_result(resp, cluster_name))
    /\ UNCHANGED <<clusters, nextId, vault, labels, profiles>>

(***************************************************************************)
(* create_cluster, with _store_cluster_config and _generate_pairing_key.   *)
(***************************************************************************)
\* except Exception as e: raise ClusterOperationError(...)
CreateClusterErrorLeaky(e) == IF e = "VaultError" THEN e ELSE "ClusterOperationError"

CreateClusterError(e) == "ClusterOperationError"

FailCreate(w, e) == Finish(w, Raised(CreateClusterError(e), e))

\* lines 105-123: validation, the creation POST, ContainerCluster(**response)
create_cluster(w, cluster_name, enforcement_mode) ==
    /\ Begin(w, "create_cluster", [name |-> cluster_name, mode |-> enforcement_mode])
    /\ \/ /\ ~is_valid_cluster_name(cluster_name)
          /\ FailCreate(w, "ValueError")
          /\ UNCHANGED <<clusters, nextId, loc, log>>
       \/ /\ is_valid_cluster_name(cluster_name)
          /\ Issue(w, PceCall("POST", <<"container_clusters">>, cluster_name))
          /\ \/ \E e \in APIFailures :
                  /\ FailCreate(w, e)
                  /\ UNCHANGED <<clusters, nextId, loc>>
             \/ /\ nextId <= MaxClusters
                /\ \E tok \in Tokens \cup {NoneToken} :
                     LET c == NewCluster(nextId, cluster_name, enforcement_mode) IN
                     /\ clusters' = clusters \cup {c}
                     /\ nextId' = nextId + 1
                     /\ loc' = [loc EXCEPT ![w].cluster = CreationResponse(c, tok)]
                     /\ Goto(w, "pairing_profile")
    /\ UNCHANGED <<vault, labels, profiles>>

\* lines 291-301: the pairing-profile POST
generate_pairing_profile(w) ==
    /\ pc[w] = "pairing_profile"
    /\ Issue(w, PceCall("POST", <<"pairing_profiles">>, ProfileName(loc[w].cluster.name)))
    /\ \/ \E e \in APIFailures :
            /\ FailCreate(w, e)
            /\ UNCHANGED loc
       \/ \E pid \in PairingProfileIds :
            /\ loc' = [loc EXCEPT ![w].profile_id = LastSegment(PairingProfileHref(pid))]
            /\ Goto(w, "pairing_key")
    /\ UNCHANGED <<clusters, nextId, vault, labels, profiles, op, arg>>

ClusterConfigSwapped(cluster, activation_code) ==
    [cluster_id |-> LastSegment(cluster.href),
     cluster_name |-> cluster.name,
     cluster_token |-> activation_code,
     pairing_key |-> cluster.container_cluster_token]

\* ClusterConfig(cluster_id=..., cluster_name=..., cluster_token=..., pairing_key=...)
ClusterConfigOf(cluster, activation_code) ==
    [cluster_id |-> LastSegment(cluster.href),
     cluster_name |-> cluster.name,
     cluster_token |-> cluster.container_cluster_token,
     pairing_key |-> activation_code]

\* the model's field types: cluster_token and pairing_key are str, the name is validated
ClusterConfigValid(config) ==
    /\ config.cluster_token # NoneToken
    /\ is_valid_cluster_name(config.cluster_name)

\* lines 302-307 and 139-144: the pairing-key POST, then the ClusterConfig
generate_pairing_key(w) ==
    /\ pc[w] = "pairing_key"
    /\ Issue(w, PceCall("POST", <<"pairing_profiles", loc[w].profile_id, "pairing_key">>, <<>>))
    /\ \/ \E e \in APIFailures :
            /\ FailCreate(w, e)
            /\ UNCHANGED loc
       \/ \E code \in ActivationCodes :
            LET config == ClusterConfigOf(loc[w].cluster, code) IN
            \/ /\ ~ClusterConfigValid(config)
               /\ FailCreate(w, "ValidationError")
               /\ UNCHANGED loc
            \/ /\ ClusterConfigValid(config)
               /\ loc' = [loc EXCEPT ![w].pairing_key = code]
               /\ Goto(w, "store_secret")
    /\ UNCHANGED <<clusters, nextId, vault, labels, profiles, op, arg>>

\* create_or_update_secret: an upsert
VaultPut(path, data) ==
    [p \in DOMAIN vault \cup {path} |-> IF p = path THEN data ELSE vault[p]]

\* delete_metadata_and_all_versions: an absent path is no error
VaultRemove(path) == [p \in DOMAIN vault \ {path} |-> vault[p]]

store_cluster_config_committing(w) ==
    /\ pc[w] = "store_secret"
    /\ Issue(w, VaultCall("store_secret", ClusterSecretPath(loc[w].cluster.name)))
    /\ vault' = VaultPut(ClusterSecretPath(loc[w].cluster.name),
                         ClusterConfigOf(loc[w].cluster, loc[w].pairing_key))
    /\ \/ \E e \in VaultFailures : FailCreate(w, e)
       \/ Finish(w, Returned(loc[w].cluster))
    /\ UNCHANGED <<clusters, nextId, labels, profiles, op, arg, loc>>

\* lines 146-149 and 128: the secret write, then return cluster
store_cluster_config(w) ==
    /\ pc[w] = "store_secret"
    /\ Issue(w, VaultCall("store_secret", ClusterSecretPath(loc[w].cluster.name)))
    /\ \/ \E e \in VaultFailures :
            /\ FailCreate(w, e)
            /\ UNCHANGED vault
       \/ /\ vault' = VaultPut(ClusterSecretPath(loc[w].cluster.name),
                               ClusterConfigOf(loc[w].cluster, loc[w].pairing_key))
          /\ Finish(w, Returned(loc[w].cluster))
    /\ UNCHANGED <<clusters, nextId, labels, profiles, op, arg, loc>>

(***************************************************************************)
(* delete_cluster.                                                         *)
(***************************************************************************)
\* except Exception as e: raise ClusterOperationError(...)
DeleteClusterError(e) == "ClusterOperationError"

FailDelete(w, e) == Finish(w, Raised(DeleteClusterError(e), e))

delete_cluster_tidying(w, cluster_name) ==
    /\ Begin(w, "delete_cluster", [name |-> cluster_name])
    /\ Issue(w, PceCall("GET", <<"container_clusters">>, cluster_name))
    /\ \/ /\ \E e \in APIFailures : TRUE
          /\ FailDelete(w, "IllumioError")
          /\ UNCHANGED loc
       \/ \E resp \in ListResponses(cluster_name) :
            LET r == get_cluster_result(resp, cluster_name) IN
            \/ /\ r.kind = "return" /\ r.val = None
               /\ loc' = [loc EXCEPT ![w].resp = Listed(resp)]
               /\ Goto(w, "delete_secret")
            \/ /\ r.kind = "return" /\ r.val # None
               /\ loc' = [loc EXCEPT ![w].resp = Listed(resp), ![w].cluster = r.val]
               /\ Goto(w, "delete_pce")
    /\ UNCHANGED <<clusters, nextId, vault, labels, profiles>>

\* lines 322-325: the lookup
delete_cluster(w, cluster_name) ==
    /\ Begin(w, "delete_cluster", [name |-> cluster_name])
    /\ Issue(w, PceCall("GET", <<"container_clusters">>, cluster_name))
    /\ \/ /\ \E e \in APIFailures : TRUE
          /\ FailDelete(w, "IllumioError")
          /\ UNCHANGED loc
       \/ \E resp \in ListResponses(cluster_name) :
            LET r == get_cluster_result(resp, cluster_name) IN
            \/ /\ r.kind = "return" /\ r.val = None
               /\ loc' = [loc EXCEPT ![w].resp = Listed(resp)]
               /\ Finish(w, Returned([result |-> FALSE]))
            \/ /\ r.kind = "return" /\ r.val # None
               /\ loc' = [loc EXCEPT ![w].resp = Listed(resp), ![w].cluster = r.val]
               /\ Goto(w, "delete_pce")
    /\ UNCHANGED <<clusters, nextId, vault, labels, profiles>>

ClusterId(c) == LastSegment(c.href)

delete_pce_cluster_best_effort(w) ==
    /\ pc[w] = "delete_pce"
    /\ Issue(w, PceCall("DELETE", <<"container_clusters", ClusterId(loc[w].cluster)>>, <<>>))
    /\ \/ /\ \E e \in APIFailures : TRUE
          /\ UNCHANGED clusters
       \/ /\ \E c \in clusters : ClusterId(c) = ClusterId(loc[w].cluster)
          /\ clusters' = { c \in clusters : ClusterId(c) # ClusterId(loc[w].cluster) }
    /\ Goto(w, "delete_secret")
    /\ UNCHANGED <<nextId, vault, labels, profiles, op, arg, loc>>

\* lines 328-332: the PCE delete
delete_pce_cluster(w) ==
    /\ pc[w] = "delete_pce"
    /\ Issue(w, PceCall("DELETE", <<"container_clusters", ClusterId(loc[w].cluster)>>, <<>>))
    /\ \/ \E e \in APIFailures :
            /\ FailDelete(w, e)
            /\ UNCHANGED clusters
       \/ /\ \E c \in clusters : ClusterId(c) = ClusterId(loc[w].cluster)
          /\ clusters' = { c \in clusters : ClusterId(c) # ClusterId(loc[w].cluster) }
          /\ Goto(w, "delete_secret")
    /\ UNCHANGED <<nextId, vault, labels, profiles, op, arg, loc>>

delete_cluster_secret_skipped(w) ==
    /\ pc[w] = "delete_secret"
    /\ Finish(w, Returned([result |-> TRUE]))
    /\ UNCHANGED <<clusters, nextId, vault, labels, profiles, op, arg, loc, log>>

delete_cluster_secret_forgiving(w) ==
    /\ pc[w] = "delete_secret"
    /\ Issue(w, VaultCall("delete_secret_versions", ClusterSecretPath(arg[w].name)))
    /\ \/ /\ \E e \in VaultFailures : TRUE
          /\ UNCHANGED vault
       \/ vault' = VaultRemove(ClusterSecretPath(arg[w].name))
    /\ Finish(w, Returned([result |-> TRUE]))
    /\ UNCHANGED <<clusters, nextId, labels, profiles, op, arg, loc>>

\* lines 335-337: the secret delete, then return True
delete_cluster_secret(w) ==
    /\ pc[w] = "delete_secret"
    /\ Issue(w, VaultCall("delete_secret_versions", ClusterSecretPath(arg[w].name)))
    /\ \/ \E e \in VaultFailures :
            /\ FailDelete(w, e)
            /\ UNCHANGED vault
       \/ /\ vault' = VaultRemove(ClusterSecretPath(arg[w].name))
          /\ Finish(w, Returned([result |-> TRUE]))
    /\ UNCHANGED <<clusters, nextId, labels, profiles, op, arg, loc>>

(***************************************************************************)
(* The cluster workflows, run by two workers against one PCE and vault.    *)
(***************************************************************************)
EmptyVault == [p \in {} |-> None]

NoLabels == {}

NoProfiles == [ns \in {} |-> 0]

Init ==
    /\ clusters = {}
    /\ nextId = 1
    /\ vault = EmptyVault
    /\ labels = NoLabels
    /\ profiles = NoProfiles
    /\ pc = [w \in Workers |-> "idle"]
    /\ op = [w \in Workers |-> "none"]
    /\ arg = [w \in Workers |-> None]
    /\ loc = [w \in Workers |-> NoLoc]
    /\ log = [w \in Workers |-> <<>>]
    /\ out = [w \in Workers |-> NoOut]

Next ==
    \E w \in {"w1"} :
        \/ \E name \in LookupNameInputs : get_cluster(w, name)
        \/ \E name \in ClusterNameInputs, mode \in EnforcementModes :
              create_cluster(w, name, mode)
        \/ generate_pairing_profile(w)
        \/ generate_pairing_key(w)
        \/ store_cluster_config(w)
        \/ \E name \in LookupNameInputs : delete_cluster(w, name)
        \/ delete_pce_cluster(w)
        \/ delete_cluster_secret(w)
        \/ Return(w)

Spec == Init /\ [][Next]_vars

(***************************************************************************)
(* Labels.                                                                 *)
(***************************************************************************)
LabelAlnum == {"a", "b", "1", "A"}

LabelPunct == {".", "_", "/", "-"}

\* re.match(r"^[a-z0-9A-Z][a-z0-9A-Z._/-]*[a-z0-9A-Z]$", s), "$" as above
LabelCore(s) ==
    /\ Len(s) >= 2
    /\ s[1] \in LabelAlnum
    /\ s[Len(s)] \in LabelAlnum
    /\ \A i \in 2..(Len(s) - 1) : s[i] \in LabelAlnum \cup LabelPunct

MatchesLabelPattern(s) ==
    \/ LabelCore(s)
    \/ /\ Len(s) >= 1
       /\ s[Len(s)] = Newline
       /\ LabelCore(SubSeq(s, 1, Len(s) - 1))

is_valid_label(key, value) == MatchesLabelPattern(key) /\ MatchesLabelPattern(value)

\* Label(**record): validate_label_format runs is_valid_label(v, v) on key and on value
LabelModelValid(record) ==
    is_valid_label(record.key, record.key) /\ is_valid_label(record.value, record.value)

\* the PCE assigns at most this many label ids in one run
MaxLabels == 2

LabelHref(id) == <<"orgs", OrgId, "labels", id>>

LabelInputs ==
    { [key |-> <<"a", "b">>, value |-> <<"a", "1">>],
      [key |-> <<"a", "b">>, value |-> <<"a", ".", "1">>],
      [key |-> <<"a", "b">>, value |-> <<"b">>] }

LabelQuery(key, value) == PceCall("GET", <<"labels">>, [key |-> key, value |-> value])

LabelPost(key, value) == PceCall("POST", <<"labels">>, [key |-> key, value |-> value])

\* the PCE's answer to the key/value query: every label of that key and value,
\* and possibly others, in any order
LabelResponses(key, value) ==
    { s \in UNION { [1..n -> labels] : n \in 0..Cardinality(labels) } :
        /\ \A i, j \in 1..Len(s) : i # j => s[i] # s[j]
        /\ { l \in labels : l.key = key /\ l.value = value } \subseteq Range(s) }

\* except Exception as e: raise LabelOperationError(...)
LabelError(e) == "LabelOperationError"

FailLabel(w, e) == Finish(w, Raised(LabelError(e), e))

\* Label(**record), returned or rejected
LabelResult(w, record) ==
    IF LabelModelValid(record)
    THEN Finish(w, Returned(record))
    ELSE FailLabel(w, "ValidationError")

labels_truthy_never(resp) == FALSE

\* if labels:
labels_truthy(resp) == resp # <<>>

\* lines 169-178: the query, and the first record when there is one
get_or_create_label(w, key, value) ==
    /\ Begin(w, "get_or_create_label", [key |-> key, value |-> value])
    /\ Issue(w, LabelQuery(key, value))
    /\ \/ \E e \in APIFailures :
            /\ FailLabel(w, e)
            /\ UNCHANGED loc
       \/ \E resp \in LabelResponses(key, value) :
            /\ loc' = [loc EXCEPT ![w].resp = Listed(resp)]
            /\ IF labels_truthy(resp)
               THEN LabelResult(w, resp[1])
               ELSE Goto(w, "create_label")
    /\ UNCHANGED <<clusters, nextId, vault, labels, profiles>>

create_label_idempotent(w) ==
    /\ pc[w] = "create_label"
    /\ Issue(w, LabelPost(arg[w].key, arg[w].value))
    /\ \/ \E e \in APIFailures :
            /\ FailLabel(w, e)
            /\ UNCHANGED <<labels, nextId>>
       \/ /\ \E l \in labels : l.key = arg[w].key /\ l.value = arg[w].value
          /\ LabelResult(w, CHOOSE l \in labels : l.key = arg[w].key /\ l.value = arg[w].value)
          /\ UNCHANGED <<labels, nextId>>
       \/ /\ ~ \E l \in labels : l.key = arg[w].key /\ l.value = arg[w].value
          /\ nextId <= MaxLabels
          /\ LET l == [href |-> LabelHref(nextId), key |-> arg[w].key,
                       value |-> arg[w].value] IN
             /\ labels' = labels \cup {l}
             /\ nextId' = nextId + 1
             /\ LabelResult(w, l)
    /\ UNCHANGED <<clusters, vault, profiles, op, arg, loc>>

\* lines 180-188: the creation POST and the Label built from its response
create_label(w) ==
    /\ pc[w] = "create_label"
    /\ Issue(w, LabelPost(arg[w].key, arg[w].value))
    /\ \/ \E e \in APIFailures :
            /\ FailLabel(w, e)
            /\ UNCHANGED <<labels, nextId>>
       \/ /\ nextId <= MaxLabels
          /\ LET l == [href |-> LabelHref(nextId), key |-> arg[w].key,
                       value |-> arg[w].value] IN
             /\ labels' = labels \cup {l}
             /\ nextId' = nextId + 1
             /\ LabelResult(w, l)
    /\ UNCHANGED <<clusters, vault, profiles, op, arg, loc>>

InitLabel == Init

NextLabel ==
    \E w \in {"w1"} :
        \/ \E l \in LabelInputs : get_or_create_label(w, l.key, l.value)
        \/ create_label(w)
        \/ Return(w)

SpecLabel == InitLabel /\ [][NextLabel]_vars

(***************************************************************************)
(* Workload profiles: create_namespace_profile, get_cluster_profiles and   *)
(* sync_namespace_labels, for one cluster of the PCE.                      *)
(***************************************************************************)
\* a list of namespaces passed to sync_namespace_labels holds at most this many
MaxNamespaces == 2

\* the PCE accepts at most this many profiles for one namespace
MaxProfiles == 2

ValidNamespaces == { <<"a", "b">>, <<"b", "-", "1">> }

InvalidNamespaces == { <<"A", "b">>, <<"a", " ", "b">>, <<"a">> }

NamespaceInputs == ValidNamespaces \cup InvalidNamespaces

\* the namespaces a sync is given: the valid ones and one invalid one
SyncNamespaces == ValidNamespaces \cup { <<"a">> }

NamespaceLists == UNION { [1..n -> SyncNamespaces] : n \in 0..MaxNamespaces }

\* a profile whose namespace is null
NoneNamespace == <<"<None>">>

ClusterIdInputs == {"123"}

ProfilesEndpoint(cluster_id) ==
    <<"container_clusters", cluster_id, "container_workload_profiles">>

ProfilesQuery(cluster_id) == PceCall("GET", ProfilesEndpoint(cluster_id), <<>>)

ProfilePost(cluster_id, namespace) ==
    PceCall("POST", ProfilesEndpoint(cluster_id), namespace)

ProfileCount(namespace) ==
    IF namespace \in DOMAIN profiles THEN profiles[namespace] ELSE 0

\* the PCE adds one profile for the namespace
ProfileAdded(namespace) ==
    [ns \in DOMAIN profiles \cup {namespace} |->
        IF ns = namespace THEN ProfileCount(ns) + 1 ELSE profiles[ns]]

\* the response to the creation POST, as ContainerProfile(**response) keeps it
NewProfile(namespace) == [namespace |-> namespace, managed |-> TRUE,
                          enforcement_mode |-> "visibility_only"]

\* except Exception as e: raise IllumioError(...)
ProfileError(e) == "IllumioError"

\* set(namespaces)
SetOf(namespaces) == Range(namespaces)

\* {p.namespace for p in existing_profiles if p.namespace is not None}
existing_namespaces ==
    { ns \in DOMAIN profiles : profiles[ns] > 0 /\ ns # NoneNamespace }

\* lines 213-237, called directly
create_namespace_profile(w, cluster_id, namespace) ==
    /\ Begin(w, "create_namespace_profile",
             [cluster_id |-> cluster_id, namespace |-> namespace])
    /\ \/ /\ ~is_valid_namespace(namespace)
          /\ Finish(w, Raised(ProfileError("ValueError"), "ValueError"))
          /\ UNCHANGED <<profiles, log>>
       \/ /\ is_valid_namespace(namespace)
          /\ Issue(w, ProfilePost(cluster_id, namespace))
          /\ \/ \E e \in APIFailures :
                  /\ Finish(w, Raised(ProfileError(e), e))
                  /\ UNCHANGED profiles
             \/ /\ ProfileCount(namespace) < MaxProfiles
                /\ profiles' = ProfileAdded(namespace)
                /\ Finish(w, Returned(NewProfile(namespace)))
    /\ UNCHANGED <<clusters, nextId, vault, labels, loc>>

\* except Exception as e: raise IllumioError(...), around what get_cluster_profiles
\* and create_namespace_profile raise
SyncError(e) == "IllumioError"

FailSync(w) == Finish(w, Raised(SyncError("IllumioError"), "IllumioError"))

\* set(namespaces) - existing_namespaces
MissingIgnoringExisting(namespaces, existing) == SetOf(namespaces)

Missing(namespaces, existing) == SetOf(namespaces) \ existing

\* lines 419-428: the profile listing and the set of namespaces to create
sync_namespace_labels(w, cluster_id, namespaces) ==
    /\ Begin(w, "sync_namespace_labels",
             [cluster_id |-> cluster_id, namespaces |-> namespaces])
    /\ Issue(w, ProfilesQuery(cluster_id))
    /\ \/ /\ APIFailures # {}
          /\ FailSync(w)
          /\ UNCHANGED loc
       \/ LET todo == Missing(namespaces, existing_namespaces) IN
          /\ loc' = [loc EXCEPT ![w].existing = existing_namespaces,
                                ![w].todo = todo]
          /\ IF todo = {}
             THEN Finish(w, Returned(None))
             ELSE Goto(w, "sync_create")
    /\ UNCHANGED <<clusters, nextId, vault, labels, profiles>>

sync_create_missing_undoing(w) ==
    /\ pc[w] = "sync_create"
    /\ \E namespace \in loc[w].todo :
        \/ /\ ~is_valid_namespace(namespace)
           /\ FailSync(w)
           /\ UNCHANGED <<profiles, log, loc>>
        \/ /\ is_valid_namespace(namespace)
           /\ Issue(w, ProfilePost(arg[w].cluster_id, namespace))
           /\ \/ /\ APIFailures # {}
                 /\ FailSync(w)
                 /\ profiles' = [ns \in DOMAIN profiles |->
                                    IF ns \in loc[w].existing \/ ns = NoneNamespace
                                    THEN profiles[ns] ELSE 0]
                 /\ UNCHANGED loc
              \/ /\ ProfileCount(namespace) < MaxProfiles
                 /\ profiles' = ProfileAdded(namespace)
                 /\ loc' = [loc EXCEPT ![w].todo = @ \ {namespace}]
                 /\ IF loc[w].todo = {namespace}
                    THEN Finish(w, Returned(None))
                    ELSE Goto(w, "sync_create")
    /\ UNCHANGED <<clusters, nextId, vault, labels, op, arg>>

\* lines 428-429: one turn of the loop, create_namespace_profile for a namespace
\* of the set that is still to do (a set is iterated in no particular order)
sync_create_missing(w) ==
    /\ pc[w] = "sync_create"
    /\ \E namespace \in loc[w].todo :
        \/ /\ ~is_valid_namespace(namespace)
           /\ FailSync(w)
           /\ UNCHANGED <<profiles, log, loc>>
        \/ /\ is_valid_namespace(namespace)
           /\ Issue(w, ProfilePost(arg[w].cluster_id, namespace))
           /\ \/ /\ APIFailures # {}
                 /\ FailSync(w)
                 /\ UNCHANGED <<profiles, loc>>
              \/ /\ ProfileCount(namespace) < MaxProfiles
                 /\ profiles' = ProfileAdded(namespace)
                 /\ loc' = [loc EXCEPT ![w].todo = @ \ {namespace}]
                 /\ IF loc[w].todo = {namespace}
                    THEN Finish(w, Returned(None))
                    ELSE Goto(w, "sync_create")
    /\ UNCHANGED <<clusters, nextId, vault, labels, op, arg>>

\* the PCE holds no profile, or the cluster's default profile of no namespace
InitSync ==
    /\ clusters = {}
    /\ nextId = 1
    /\ vault = EmptyVault
    /\ labels = NoLabels
    /\ profiles \in { NoProfiles, [ns \in {NoneNamespace} |-> 1] }
    /\ pc = [w \in Workers |-> "idle"]
    /\ op = [w \in Workers |-> "none"]
    /\ arg = [w \in Workers |-> None]
    /\ loc = [w \in Workers |-> NoLoc]
    /\ log = [w \in Workers |-> <<>>]
    /\ out = [w \in Workers |-> NoOut]

\* a second reconciler syncs the valid namespaces while the first worker runs
ReconcilerList == <<<<"a", "b">>>>

NextSync ==
    \/ \E cluster_id \in ClusterIdInputs, namespace \in NamespaceInputs :
          create_namespace_profile("w1", cluster_id, namespace)
    \/ \E cluster_id \in ClusterIdInputs, namespaces \in NamespaceLists :
          sync_namespace_labels("w1", cluster_id, namespaces)
    \/ \E cluster_id \in ClusterIdInputs :
          sync_namespace_labels("w2", cluster_id, ReconcilerList)
    \/ \E w \in Workers :
        \/ sync_create_missing(w)
        \/ Return(w)

SpecSync == InitSync /\ [][NextSync]_vars

(***************************************************************************)
(* The command line: create-cluster and delete-cluster of                  *)
(* src/bin/illumio_cluster_manager.py.  `out` is what the service call     *)
(* gave the command; the command turns an IllumioError into a              *)
(* ClickException and prints the rest.                                     *)
(***************************************************************************)
CliNameInputs == { <<"a", "b">>, <<"a", "-", "1">>, <<"A", "b">> }

\* a plain str, which has no .value
PlainStr(s) == [type |-> "str", s |-> s]

\* line 99: enforcement_mode="enforce" if enforce else "visibility_only"
CliEnforcementMode(enforce) ==
    IF enforce THEN PlainStr("enforce") ELSE PlainStr("visibility_only")

\* line 114 of the service: enforcement_mode.value
has_value(enforcement_mode) == enforcement_mode.type = "IllumioEnforcementMode"

\* lines 105-115 of the service: what create_cluster does before its POST
create_cluster_entry(cluster_name, enforcement_mode) ==
    IF ~is_valid_cluster_name(cluster_name) THEN "ValueError"
    ELSE IF ~has_value(enforcement_mode) THEN "AttributeError"
    ELSE "post"

not_dry_run_ignored(dry_run) == TRUE

\* if not dry_run:
not_dry_run(dry_run) == ~dry_run

\* lines 85-117: the existence read, then create_cluster unless --dry-run.
\* create_cluster is entered with the string of line 99; were it to pass its
\* entry, the POST and what follows it would be the steps of Spec.
cli_create_cluster(w, cluster_name, enforce, dry_run) ==
    /\ Begin(w, "cli_create_cluster",
             [name |-> cluster_name, enforce |-> enforce, dry_run |-> dry_run])
    /\ Issue(w, PceCall("GET", <<"container_clusters">>, cluster_name))
    /\ \/ \E e \in APIFailures :
            /\ Finish(w, Raised("IllumioError", e))
            /\ UNCHANGED loc
       \/ \E resp \in ListResponses(cluster_name) :
            LET existing == get_cluster_result(resp, cluster_name)
                entry == create_cluster_entry(cluster_name, CliEnforcementMode(enforce))
            IN  /\ loc' = [loc EXCEPT ![w].resp = Listed(resp)]
                /\ IF existing.kind = "raise" THEN Finish(w, existing)
                   ELSE IF existing.val # None THEN Finish(w, Returned(None))
                   ELSE IF ~not_dry_run(dry_run) THEN Finish(w, Returned(None))
                   ELSE IF entry = "post" THEN Goto(w, "cli_create_post")
                   ELSE FailCreate(w, entry)
    /\ UNCHANGED <<clusters, nextId, vault, labels, profiles>>

\* lines 129-135: delete_cluster unless --dry-run; here its lookup
cli_delete_cluster(w, cluster_name, dry_run) ==
    /\ Begin(w, "cli_delete_cluster", [name |-> cluster_name, dry_run |-> dry_run])
    /\ \/ /\ ~not_dry_run(dry_run)
          /\ Finish(w, Returned(None))
          /\ UNCHANGED <<loc, log>>
       \/ /\ not_dry_run(dry_run)
          /\ Issue(w, PceCall("GET", <<"container_clusters">>, cluster_name))
          /\ \/ /\ APIFailures # {}
                /\ FailDelete(w, "IllumioError")
                /\ UNCHANGED loc
             \/ \E resp \in ListResponses(cluster_name) :
                  LET r == get_cluster_result(resp, cluster_name) IN
                  \/ /\ r.kind = "return" /\ r.val = None
                     /\ loc' = [loc EXCEPT ![w].resp = Listed(resp)]
                     /\ Finish(w, Returned([result |-> FALSE]))
                  \/ /\ r.kind = "return" /\ r.val # None
                     /\ loc' = [loc EXCEPT ![w].resp = Listed(resp),
                                           ![w].cluster = r.val]
                     /\ Goto(w, "delete_pce")
    /\ UNCHANGED <<clusters, nextId, vault, labels, profiles>>

\* clusters that the service API registered before the command runs
RegisteredClusters ==
    { {}, { NewCluster(1, <<"a", "b">>, "visibility_only") },
      { NewCluster(1, <<"a", "b">>, "full"),
        NewCluster(2, <<"a", "-", "1">>, "visibility_only") } }

SecretsOf(cs) ==
    [p \in { ClusterSecretPath(c.name) : c \in cs } |->
        LET c == CHOOSE c \in cs : ClusterSecretPath(c.name) = p IN
        ClusterConfigOf(CreationResponse(c, "tok"), "k1")]

InitCli ==
    /\ clusters \in RegisteredClusters
    /\ nextId = Cardinality(clusters) + 1
    /\ vault = SecretsOf(clusters)
    /\ labels = NoLabels
    /\ profiles = NoProfiles
    /\ pc = [w \in Workers |-> "idle"]
    /\ op = [w \in Workers |-> "none"]
    /\ arg = [w \in Workers |-> None]
    /\ loc = [w \in Workers |-> NoLoc]
    /\ log = [w \in Workers |-> <<>>]
    /\ out = [w \in Workers |-> NoOut]

NextCli ==
    \E w \in {"w1"} :
        \/ \E name \in CliNameInputs, enforce \in BOOLEAN, dry_run \in BOOLEAN :
              cli_create_cluster(w, name, enforce, dry_run)
        \/ \E name \in CliNameInputs, dry_run \in BOOLEAN :
              cli_delete_cluster(w, name, dry_run)
        \/ delete_pce_cluster(w)
        \/ delete_cluster_secret(w)
        \/ Return(w)

SpecCli == InitCli /\ [][NextCli]_vars

(***************************************************************************)
(* The clients: BaseAPIClient.request and the VaultClient operations,      *)
(* each under the retry decorator of src/app/utils/decorators.py.  One     *)
(* step is one attempt: one call of the decorated function, with the one   *)
(* backend call it makes and the answer the backend gives to it.           *)
(***************************************************************************)
\* @retry(max_attempts=3)
max_attempts == 3

\* lines 27-43 of the decorator, after an attempt that is now the last of the
\* log: a value is returned; an exception of the decorator's tuple is followed
\* by another attempt unless this was the last one; any other is raised
retry_wrapper(w, outcome, caught, attempts) ==
    IF outcome.kind = "raise" /\ caught /\ Len(log'[w]) < attempts
    THEN Goto(w, "retry")
    ELSE Finish(w, outcome)

\* the keywords the __init__ of an exception class takes
InitKeywords(cls) ==
    IF cls \in {"APIError", "APIConnectionError"}
    THEN {"message", "status_code", "response"}
    ELSE {"message", "details"}

\* raise cls(**kwargs): the exception, or the TypeError of a keyword that the
\* class's __init__ does not take
RaiseWith(cls, kwargs, cause) ==
    IF kwargs \subseteq InitKeywords(cls)
    THEN Raised(cls, cause)
    ELSE Raised("TypeError", cls)

HttpMethods == {"GET", "POST"}

RequestEndpoints == { <<"labels">> }

StatusCodes == {200, 204, 401, 404, 503}

\* Retry(status_forcelist=[500, 502, 503, 504], raise_on_status=True)
status_forcelist == {500, 502, 503, 504}

Bodies == {"json", "text", "empty"}

TransportErrors == {"ConnectionError", "Timeout"}

\* what the network gives to one session.request, the session's own retries
\* included: no response at all, or the last response received
Answers ==
    [net : {"ok"}, status : StatusCodes, body : Bodies]
        \cup [net : TransportErrors, status : {0}, body : {"empty"}]

SessionCall(method, endpoint, answer) ==
    [sys |-> "http", method |-> method, endpoint |-> endpoint, arg |-> answer]

\* self.session.request(...): a response, or a RequestException for a transport
\* error and for a status of the forcelist that outlasted the session's retries
session_request(answer) ==
    IF answer.net # "ok" THEN Raised("RequestException", answer.net)
    ELSE IF answer.status \in status_forcelist
         THEN Raised("RequestException", "RetryError")
    ELSE Returned(answer)

\* response.raise_for_status() raises for 4xx and 5xx
raises_for_status(status) == status >= 400 /\ status < 600

\* lines 91-102: AuthenticationError for 401, APIError for the rest
status_error(response) ==
    IF response.status = 401
    THEN RaiseWith("AuthenticationError", {"message", "status_code", "response"},
                   [status_code |-> response.status, response |-> response.body])
    ELSE RaiseWith("APIError", {"message", "status_code", "response"},
                   [status_code |-> response.status, response |-> response.body])

\* _handle_response
handle_response(response) ==
    IF raises_for_status(response.status) THEN status_error(response)
    ELSE IF response.body = "empty" THEN Returned("{}")
    ELSE IF response.body = "json" THEN Returned("parsed")
    ELSE RaiseWith("APIConnectionError", {"message"}, "JSONDecodeError")

\* lines 153-176: one run of the body of request
request_once(answer) ==
    LET r == session_request(answer) IN
    IF r.kind = "raise"
    THEN RaiseWith("APIConnectionError", {"message"}, r.cause)
    ELSE handle_response(r.val)

\* @retry(max_attempts=3, exceptions=(APIConnectionError,))
request_retries(e) == e = "APIConnectionError"

request_attempt(w, method, endpoint) ==
    \E answer \in Answers :
        /\ Issue(w, SessionCall(method, endpoint, answer))
        /\ LET outcome == request_once(answer) IN
           retry_wrapper(w, outcome,
                         outcome.kind = "raise" /\ request_retries(outcome.exc),
                         max_attempts)

\* the first attempt of request(method, endpoint)
request(w, method, endpoint) ==
    /\ Begin(w, "request", [method |-> method, endpoint |-> endpoint])
    /\ request_attempt(w, method, endpoint)
    /\ UNCHANGED <<clusters, nextId, vault, labels, profiles, loc>>

\* a further attempt, after the decorator's sleep
request_again(w) ==
    /\ pc[w] = "retry"
    /\ op[w] = "request"
    /\ request_attempt(w, arg[w].method, arg[w].endpoint)
    /\ UNCHANGED <<clusters, nextId, vault, labels, profiles, loc, op, arg>>

InitRequest == Init

NextRequest ==
    \E w \in {"w1"} :
        \/ \E method \in HttpMethods, endpoint \in RequestEndpoints :
              request(w, method, endpoint)
        \/ request_again(w)
        \/ Return(w)

SpecRequest == InitRequest /\ [][NextRequest]_vars

(***************************************************************************)
(* VaultClient: store_secret, get_secret, delete_secret_versions and       *)
(* list_secrets.                                                           *)
(***************************************************************************)
VaultOps == {"store_secret", "get_secret", "delete_secret_versions", "list_secrets"}

\* subclasses of hvac.exceptions.VaultError
HvacErrors == {"hvac.Forbidden", "hvac.InvalidPath"}

\* what the backend call raises that is no hvac VaultError
OtherErrors == {"ConnectionError", "Exception"}

VaultAnswers == {"ok"} \cup HvacErrors \cup OtherErrors

VaultPaths == { ClusterSecretPath(<<"a", "b">>), ClusterSecretPath(<<"a", "-", "1">>) }

SecretData == {"d1", "d2"}

BackendCall(operation, path, answer) ==
    [sys |-> "vault_backend", method |-> operation, endpoint |-> path, arg |-> answer]

\* the body of an operation, lines 85-105, 128-153, 176-195 and 215-227: only a
\* hvac VaultError becomes VaultError; get_secret returns {} for InvalidPath
vault_once(operation, answer) ==
    IF answer = "ok" THEN Returned("ok")
    ELSE IF operation = "get_secret" /\ answer = "hvac.InvalidPath" THEN Returned("{}")
    ELSE IF answer \in HvacErrors THEN Raised("VaultError", answer)
    ELSE Raised(answer, answer)

\* @retry(max_attempts=3) on store_secret, get_secret and delete_secret_versions;
\* list_secrets carries @log_execution only
vault_attempts(operation) ==
    IF operation = "list_secrets" THEN 1 ELSE max_attempts

\* what a successful backend call leaves in the store
VaultEffect(operation, path, data) ==
    IF operation = "store_secret" THEN VaultPut(path, data)
    ELSE IF operation = "delete_secret_versions" THEN VaultRemove(path)
    ELSE vault

vault_attempt(w, operation, path, data) ==
    \E answer \in VaultAnswers :
        /\ Issue(w, BackendCall(operation, path, answer))
        /\ vault' = IF answer = "ok" THEN VaultEffect(operation, path, data) ELSE vault
        /\ retry_wrapper(w, vault_once(operation, answer), TRUE,
                         vault_attempts(operation))

\* the first attempt of an operation
vault_operation(w, operation, path, data) ==
    /\ Begin(w, operation, [path |-> path, data |-> data])
    /\ vault_attempt(w, operation, path, data)
    /\ UNCHANGED <<clusters, nextId, labels, profiles, loc>>

\* a further attempt, after the decorator's sleep
vault_again(w) ==
    /\ pc[w] = "retry"
    /\ op[w] \in VaultOps
    /\ vault_attempt(w, op[w], arg[w].path, arg[w].data)
    /\ UNCHANGED <<clusters, nextId, labels, profiles, loc, op, arg>>

InitVault == Init

NextVault ==
    \E w \in {"w1"} :
        \/ \E operation \in VaultOps, path \in VaultPaths, data \in SecretData :
              vault_operation(w, operation, path, data)
        \/ vault_again(w)
        \/ Return(w)

SpecVault == InitVault /\ [][NextVault]_vars

(***************************************************************************)
(* update_cluster_labels.                                                  *)
(***************************************************************************)
\* the replacement label sets: lists of label references
LabelSets == { <<>>, <<"l1">>, <<"l1", "l2">> }

\* the record of a cluster with the labels the PCE holds for it
WithLabels(c, ls) ==
    [href |-> c.href, name |-> c.name, enforcement_mode |-> c.enforcement_mode,
     container_cluster_token |-> c.container_cluster_token, labels |-> ls]

put_labels_none(ls) == <<>>

\* data={'labels': labels}
put_labels(ls) == ls

UpdatePut(cluster, ls) ==
    PceCall("PUT", <<"container_clusters", ClusterId(cluster)>>, put_labels(ls))

\* except Exception as e: raise ClusterOperationError(...)
UpdateClusterError(e) == "ClusterOperationError"

FailUpdate(w, e) == Finish(w, Raised(UpdateClusterError(e), e))

\* lines 360-363: the lookup; a name with no cluster raises ValueError
update_cluster_labels(w, cluster_name, ls) ==
    /\ Begin(w, "update_cluster_labels", [name |-> cluster_name, labels |-> ls])
    /\ Issue(w, PceCall("GET", <<"container_clusters">>, cluster_name))
    /\ \/ /\ APIFailures # {}
          /\ FailUpdate(w, "IllumioError")
          /\ UNCHANGED loc
       \/ \E resp \in ListResponses(cluster_name) :
            LET r == get_cluster_result(resp, cluster_name) IN
            /\ loc' = [loc EXCEPT ![w].resp = Listed(resp),
                                  ![w].cluster = IF r.kind = "return" THEN r.val ELSE None]
            /\ IF r.kind = "raise" THEN FailUpdate(w, "IllumioError")
               ELSE IF r.val = None THEN FailUpdate(w, "ValueError")
               ELSE Goto(w, "update_put")
    /\ UNCHANGED <<clusters, nextId, vault, labels, profiles>>

\* lines 365-372: the PUT and ContainerCluster(**response); the PCE answers
\* with the updated record or with an empty body, which request gives as {}
update_put(w) ==
    /\ pc[w] = "update_put"
    /\ Issue(w, UpdatePut(loc[w].cluster, arg[w].labels))
    /\ \/ \E e \in APIFailures :
            /\ FailUpdate(w, e)
            /\ UNCHANGED clusters
       \/ /\ clusters' = { IF c.href = loc[w].cluster.href
                           THEN WithLabels(c, put_labels(arg[w].labels)) ELSE c :
                           c \in clusters }
          /\ \/ Finish(w, Returned(loc[w].cluster))
             \/ FailUpdate(w, "ValidationError")
    /\ UNCHANGED <<nextId, vault, labels, profiles, op, arg, loc>>

InitUpdate ==
    /\ clusters \in { { WithLabels(c, <<>>) : c \in cs } : cs \in RegisteredClusters }
    /\ nextId = Cardinality(clusters) + 1
    /\ vault = EmptyVault
    /\ labels = NoLabels
    /\ profiles = NoProfiles
    /\ pc = [w \in Workers |-> "idle"]
    /\ op = [w \in Workers |-> "none"]
    /\ arg = [w \in Workers |-> None]
    /\ loc = [w \in Workers |-> NoLoc]
    /\ log = [w \in Workers |-> <<>>]
    /\ out = [w \in Workers |-> NoOut]

NextUpdate ==
    \E w \in {"w1"} :
        \/ \E name \in LookupNameInputs, ls \in LabelSets :
              update_cluster_labels(w, name, ls)
        \/ update_put(w)
        \/ Return(w)

SpecUpdate == InitUpdate /\ [][NextUpdate]_vars

(***************************************************************************)
(* Two cluster creations of one name at the same time: two create-cluster  *)
(* commands, or two callers of create_cluster, against one PCE and vault.  *)
(* Each process has its own IllumioService; they share no memory.          *)
(***************************************************************************)
RaceName == <<"a", "b">>

InitRace ==
    /\ clusters = {}
    /\ nextId = 1
    /\ vault = EmptyVault
    /\ labels = NoLabels
    /\ profiles = NoProfiles
    /\ pc = [w \in Workers |-> "idle"]
    /\ op = [w \in Workers |-> "none"]
    /\ arg = [w \in Workers |-> None]
    /\ loc = [w \in Workers |-> NoLoc]
    /\ log = [w \in Workers |-> <<>>]
    /\ out = [w \in Workers |-> NoOut]

NextRace ==
    \E w \in Workers :
        \/ \E enforce \in BOOLEAN : cli_create_cluster(w, RaceName, enforce, FALSE)
        \/ create_cluster(w, RaceName, "visibility_only")
        \/ generate_pairing_profile(w)
        \/ generate_pairing_key(w)
        \/ store_cluster_config(w)
        \/ Return(w)

SpecRace == InitRace /\ [][NextRace]_vars

(***************************************************************************)
(* Two callers of get_or_create_label at the same time, one PCE.           *)
(***************************************************************************)
InitLabelRace == InitLabel

NextLabelRace ==
    \E w \in Workers :
        \/ \E l \in LabelInputs : get_or_create_label(w, l.key, l.value)
        \/ create_label(w)
        \/ Return(w)

SpecLabelRace == InitLabelRace /\ [][NextLabelRace]_vars

(***************************************************************************)
(* The creation POST of create_cluster as BaseAPIClient.request sends it:  *)
(* each attempt of the retry decorator is one session.request, which the   *)
(* PCE may have processed whatever the client then makes of the answer.    *)
(***************************************************************************)
\* whether the PCE can have created the resource when a POST gets that answer:
\* a 2xx status says it did, a 4xx or 5xx status says it did not, and a
\* timeout says nothing (the request may have arrived and been processed)
Processed(answer) ==
    IF answer.net = "Timeout" THEN BOOLEAN
    ELSE IF answer.net = "ok" /\ ~raises_for_status(answer.status) THEN {TRUE}
    ELSE {FALSE}

PostAttempt(endpoint, answer, processed) ==
    [sys |-> "http", method |-> "POST", endpoint |-> endpoint,
     arg |-> [answer |-> answer, processed |-> processed]]

\* one attempt of request("POST", "container_clusters", data=...) and its
\* effect at the PCE
creation_post_attempt(w, cluster_name, enforcement_mode) ==
    \E answer \in Answers :
        \E processed \in Processed(answer) :
            /\ Issue(w, PostAttempt(<<"container_clusters">>, answer, processed))
            /\ IF processed
               THEN /\ nextId <= MaxClusters
                    /\ clusters' = clusters \cup
                           {NewCluster(nextId, cluster_name, enforcement_mode)}
                    /\ nextId' = nextId + 1
               ELSE UNCHANGED <<clusters, nextId>>
            /\ LET outcome == request_once(answer) IN
               retry_wrapper(w, outcome,
                             outcome.kind = "raise" /\ request_retries(outcome.exc),
                             max_attempts)

\* create_cluster up to the return of its creation POST (lines 105-121)
create_cluster_post(w, cluster_name, enforcement_mode) ==
    /\ Begin(w, "create_cluster_post", [name |-> cluster_name, mode |-> enforcement_mode])
    /\ is_valid_cluster_name(cluster_name)
    /\ creation_post_attempt(w, cluster_name, enforcement_mode)
    /\ UNCHANGED <<vault, labels, profiles, loc>>

\* the decorator calls request again after an APIConnectionError
create_cluster_post_again(w) ==
    /\ pc[w] = "retry"
    /\ op[w] = "create_cluster_post"
    /\ creation_post_attempt(w, arg[w].name, arg[w].mode)
    /\ UNCHANGED <<vault, labels, profiles, loc, op, arg>>

InitDelivery == Init

NextDelivery ==
    \E w \in {"w1"} :
        \/ \E name \in ValidNames : create_cluster_post(w, name, "visibility_only")
        \/ create_cluster_post_again(w)
        \/ Return(w)

SpecDelivery == InitDelivery /\ [][NextDelivery]_vars

(***************************************************************************)
(* One caller that runs sync_namespace_labels again and again with the     *)
(* input of its first call, against a PCE whose calls may fail.            *)
(***************************************************************************)
\* the inputs of the repeated call: valid namespaces only, and lists that
\* hold a name the pattern rejects
RepeatedLists ==
    { << <<"a", "b">>, <<"b", "-", "1">> >>,
      << <<"a", "b">>, <<"a", "b">> >>,
      << <<"a">>, <<"b", "-", "1">> >>,
      << <<"a", "b">>, <<"A", "b">>, <<"b", "-", "1">> >> }

\* the caller calls sync_namespace_labels(cluster_id, namespaces) once more
\* with the arguments of the invocation that has ended: lines 419-428 again
sync_repeat(w) ==
    /\ pc[w] = "done"
    /\ op[w] = "sync_namespace_labels"
    /\ log' = [log EXCEPT ![w] = <<ProfilesQuery(arg[w].cluster_id)>>]
    /\ \/ /\ APIFailures # {}
          /\ FailSync(w)
          /\ loc' = [loc EXCEPT ![w] = NoLoc]
       \/ LET todo == Missing(arg[w].namespaces, existing_namespaces) IN
          /\ loc' = [loc EXCEPT ![w] = [NoLoc EXCEPT !.existing = existing_namespaces,
                                                     !.todo = todo]]
          /\ IF todo = {}
             THEN Finish(w, Returned(None))
             ELSE Goto(w, "sync_create")
    /\ UNCHANGED <<clusters, nextId, vault, labels, profiles, op, arg>>

InitSyncRepeat == InitSync

NextSyncRepeat ==
    \/ \E cluster_id \in ClusterIdInputs, namespaces \in RepeatedLists :
          sync_namespace_labels("w1", cluster_id, namespaces)
    \/ sync_create_missing("w1")
    \/ sync_repeat("w1")

\* the caller goes on calling and the event loop resumes what is awaited
SpecSyncRepeat ==
    InitSyncRepeat /\ [][NextSyncRepeat]_vars /\ WF_vars(NextSyncRepeat)

(***************************************************************************)
(* Properties of the cluster workflows.                                    *)
(***************************************************************************)
Creating(w) == op[w] = "create_cluster"

Deleting(w) == op[w] = "delete_cluster"

Getting(w) == op[w] = "get_cluster"

CreationPost(name) == PceCall("POST", <<"container_clusters">>, name)

ListByName(name) == PceCall("GET", <<"container_clusters">>, name)

IsPrefix(s, t) == Len(s) <= Len(t) /\ \A i \in 1..Len(s) : s[i] = t[i]

\* the positions of the records named name in a listing
Matching(items, name) == { i \in 1..Len(items) : items[i].name = name }

Least(S) == CHOOSE i \in S : \A j \in S : i <= j

\* C1: create_cluster issues the creation POST when the name matches
\* ^[a-z0-9][a-z0-9-]*[a-z0-9]$, and for every other name it fails validation
\* having made no PCE call and no SecretStore call.
C1_CreateValidatesBeforeAnyCall ==
    \A w \in Workers :
        Creating(w) =>
            IF MatchesNamePattern(arg[w].name)
            THEN /\ log[w] # <<>>
                 /\ log[w][1] = CreationPost(arg[w].name)
            ELSE /\ pc[w] = "done"
                 /\ out[w] = Raised("ClusterOperationError", "ValueError")
                 /\ log[w] = <<>>

C1_Witness ==
    \E w \in Workers :
        /\ Creating(w)
        /\ arg[w].name = <<"a", "-">>
        /\ pc[w] = "done"
        /\ log[w] = <<>>

\* what delete_cluster(name) issues for the cluster found at href
DeleteCalls(name, href) ==
    << ListByName(name),
       PceCall("DELETE", <<"container_clusters", href[Len(href)]>>, <<>>),
       VaultCall("delete_secret_versions", <<"clusters", name>>) >>

\* C2: delete_cluster on an existing cluster performs one PCE read, then one PCE
\* delete on the id taken from the cluster's href, then one SecretStore delete of
\* clusters/{name}, in that order, and returns true: the calls it has issued are
\* at every moment a prefix of that sequence, and it returns only after all three.
C2_DeleteExistingCallsInOrder ==
    \A w \in Workers :
        (Deleting(w) /\ loc[w].resp # None
            /\ Matching(loc[w].resp.items, arg[w].name) # {}) =>
            LET items == loc[w].resp.items
                found == items[Least(Matching(items, arg[w].name))]
                calls == DeleteCalls(arg[w].name, found.href) IN
            /\ IsPrefix(log[w], calls)
            /\ (pc[w] = "done" /\ out[w].kind = "return") =>
                  /\ out[w] = Returned([result |-> TRUE])
                  /\ log[w] = calls

C2_Witness ==
    \E w \in Workers :
        /\ Deleting(w)
        /\ pc[w] = "done"
        /\ out[w] = Returned([result |-> TRUE])
        /\ Len(log[w]) = 3
        /\ ClusterSecretPath(arg[w].name) \notin DOMAIN vault

\* C3: delete_cluster on a name with no exactly-matching cluster returns false,
\* without an error, after exactly one PCE read, with no PCE delete and no
\* SecretStore delete.
C3_DeleteAbsentReturnsFalse ==
    \A w \in Workers :
        (Deleting(w) /\ loc[w].resp # None
            /\ Matching(loc[w].resp.items, arg[w].name) = {}) =>
            /\ pc[w] = "done"
            /\ out[w] = Returned([result |-> FALSE])
            /\ log[w] = << ListByName(arg[w].name) >>

\* the listing held a cluster of another name, and nothing was deleted
C3_Witness ==
    \E w \in Workers :
        /\ Deleting(w)
        /\ pc[w] = "done"
        /\ loc[w].resp # None
        /\ loc[w].resp.items # <<>>
        /\ Matching(loc[w].resp.items, arg[w].name) = {}
        /\ out[w] = Returned([result |-> FALSE])

\* C4: whenever create_cluster(name, mode) returns, the SecretStore holds at
\* clusters/{name} the activation code the pairing-key request returned (non-empty),
\* the last segment of the created cluster's href as cluster_id and the cluster's
\* pairing token, and the returned Cluster carries the requested mode.
C4_CreatedClusterHasSecret ==
    \A w \in Workers :
        (Creating(w) /\ pc[w] = "done" /\ out[w].kind = "return") =>
            LET cluster == out[w].val
                path == <<"clusters", arg[w].name>> IN
            /\ cluster.name = arg[w].name
            /\ cluster.enforcement_mode = arg[w].mode
            /\ cluster \in { CreationResponse(c, tok) : c \in clusters, tok \in Tokens }
            /\ path \in DOMAIN vault
            /\ vault[path].pairing_key = loc[w].pairing_key
            /\ vault[path].pairing_key \in ActivationCodes
            /\ vault[path].pairing_key # ""
            /\ vault[path].cluster_id = cluster.href[Len(cluster.href)]
            /\ vault[path].cluster_token = cluster.container_cluster_token
            /\ vault[path].cluster_name = arg[w].name

\* a second cluster of the mode "full" is created with the second activation code
C4_Witness ==
    \E w \in Workers :
        /\ Creating(w)
        /\ pc[w] = "done"
        /\ out[w].kind = "return"
        /\ arg[w].mode = "full"
        /\ out[w].val.href = ClusterHref(2)
        /\ vault[<<"clusters", arg[w].name>>].pairing_key = "k2"

\* C5: whatever is raised at any step of create_cluster (validation, the creation
\* POST, the pairing-profile or pairing-key request, the ClusterConfig, the secret
\* write) reaches the caller as ClusterOperationError.
C5_CreateRaisesOnlyClusterOperationError ==
    \A w \in Workers :
        (Creating(w) /\ pc[w] = "done" /\ out[w].kind = "raise") =>
            out[w].exc = "ClusterOperationError"

\* the secret write failed after the three PCE calls
C5_Witness ==
    \E w \in Workers :
        /\ Creating(w)
        /\ pc[w] = "done"
        /\ out[w] = Raised("ClusterOperationError", "VaultError")
        /\ Len(log[w]) = 4

\* C6: get_cluster(x) returns absent when the listing is empty or holds no record
\* named exactly x, whatever near-matches it holds; when it holds records named x
\* it returns the first of them, whatever is listed before it.
C6_GetClusterFirstExactMatch ==
    \A w \in Workers :
        (Getting(w) /\ pc[w] = "done" /\ loc[w].resp # None) =>
            LET items == loc[w].resp.items
                hits == Matching(items, arg[w].name) IN
            IF hits = {}
            THEN out[w] = Returned(None)
            ELSE out[w] = Returned(items[Least(hits)])

\* a near-match is listed before the exact match, which is returned
C6_Witness ==
    \E w \in Workers :
        /\ Getting(w)
        /\ pc[w] = "done"
        /\ loc[w].resp # None
        /\ Len(loc[w].resp.items) = 2
        /\ loc[w].resp.items[1].name # arg[w].name
        /\ out[w] = Returned(loc[w].resp.items[2])

(***************************************************************************)
(* Properties of get_or_create_label.                                      *)
(***************************************************************************)
GettingLabel(w) == op[w] = "get_or_create_label"

\* C7: get_or_create_label(k, v) issues exactly one read call, first, and a
\* create call exactly when that read returned an empty list: at most one, and
\* one once the invocation is over.  When the list read is not empty it issues
\* no create call, and what it returns is the first record of the list.
C7_LabelReadThenCreateOnlyIfEmpty ==
    \A w \in Workers :
        GettingLabel(w) =>
            LET q == LabelQuery(arg[w].key, arg[w].value)
                c == LabelPost(arg[w].key, arg[w].value)
                resp == loc[w].resp
            IN  /\ log[w] # <<>>
                /\ IsPrefix(log[w], <<q, c>>)
                /\ Len(log[w]) = 2 => (resp # None /\ resp.items = <<>>)
                /\ (pc[w] = "done" /\ resp # None /\ resp.items = <<>>)
                      => Len(log[w]) = 2
                /\ (resp # None /\ resp.items # <<>>)
                      => /\ pc[w] = "done"
                         /\ log[w] = <<q>>
                         /\ out[w].kind = "return" => out[w].val = resp.items[1]

\* a read that listed a label already in the PCE, returned without a create call
C7_Witness ==
    \E w \in Workers :
        /\ GettingLabel(w)
        /\ pc[w] = "done"
        /\ loc[w].resp # None
        /\ loc[w].resp.items # <<>>
        /\ loc[w].resp.items[1] \in labels
        /\ out[w] = Returned(loc[w].resp.items[1])
        /\ Len(log[w]) = 1

(***************************************************************************)
(* Properties of the profile workflows.                                    *)
(***************************************************************************)
Syncing(w) == op[w] = "sync_namespace_labels"

CreatingProfile(w) == op[w] = "create_namespace_profile"

\* the namespaces the invocation of w has sent a creation POST for, in order
PostedNamespaces(w) == [i \in 1..(Len(log[w]) - 1) |-> log[w][i + 1].arg]

NoDuplicates(s) == \A i, j \in 1..Len(s) : s[i] = s[j] => i = j

\* C8: sync_namespace_labels(cluster, N) reads the profiles once and then sends
\* creation POSTs only for namespaces of N that the read did not list, each at
\* most once however often N repeats it, never for a namespace the read listed;
\* when it returns it has sent exactly one for each such namespace, and every
\* namespace of N is profiled, so that an invocation with the same N that reads
\* the profiles afterwards sends no creation POST.
C8_SyncCreatesMissingOnce ==
    \A w \in Workers :
        (Syncing(w) /\ log[w] # <<>>) =>
            LET N == SetOf(arg[w].namespaces)
                cid == arg[w].cluster_id
                posted == PostedNamespaces(w)
            IN  /\ log[w][1] = ProfilesQuery(cid)
                /\ \A i \in 2..Len(log[w]) :
                      log[w][i] = ProfilePost(cid, posted[i - 1])
                /\ Range(posted) \subseteq N \ loc[w].existing
                /\ NoDuplicates(posted)
                /\ (pc[w] = "done" /\ out[w].kind = "return")
                      => /\ Range(posted) = N \ loc[w].existing
                         /\ N \subseteq existing_namespaces
                /\ N \subseteq loc[w].existing => Len(log[w]) = 1

\* a sync of two namespaces, one profiled before its read and the other created
\* by its single POST, has returned
C8_Witness ==
    /\ Syncing("w1")
    /\ pc["w1"] = "done"
    /\ out["w1"].kind = "return"
    /\ arg["w1"].namespaces = << <<"a", "b">>, <<"b", "-", "1">> >>
    /\ loc["w1"].existing = { <<"a", "b">> }
    /\ Len(log["w1"]) = 2

\* C9: for a cluster, whatever create_namespace_profile and
\* sync_namespace_labels invocations have run, overlapping ones included, every
\* namespace that has a profile has exactly one.
C9_OneProfilePerNamespace ==
    \A ns \in DOMAIN profiles :
        ns # NoneNamespace => profiles[ns] = 1

\* C10: create_namespace_profile with a namespace that does not match the
\* naming pattern raises and sends nothing to the PCE, whether called directly
\* or from the loop of sync_namespace_labels.
C10_InvalidNamespaceNoCall ==
    \A w \in Workers :
        /\ (CreatingProfile(w) /\ ~MatchesNamePattern(arg[w].namespace))
              => /\ log[w] = <<>>
                 /\ pc[w] = "done" => out[w] = Raised("IllumioError", "ValueError")
        /\ Syncing(w) =>
              \A i \in 2..Len(log[w]) : MatchesNamePattern(log[w][i].arg)

\* create_namespace_profile was given a namespace with an upper-case letter and
\* has raised
C10_Witness ==
    /\ CreatingProfile("w1")
    /\ arg["w1"].namespace = <<"A", "b">>
    /\ pc["w1"] = "done"
    /\ out["w1"].kind = "raise"

\* C11: what the caller of create_namespace_profile observes for a namespace
\* that does not match the pattern is the validation failure itself, a
\* ValueError, and not the failure type it observes when the PCE call fails.
C11_InvalidNamespaceRaisesValueError ==
    \A w \in Workers :
        (CreatingProfile(w) /\ pc[w] = "done"
            /\ ~MatchesNamePattern(arg[w].namespace))
              => /\ out[w].kind = "raise"
                 /\ out[w].exc = "ValueError"

(***************************************************************************)
(* Properties of the command line.                                         *)
(***************************************************************************)
CliCreating(w) == op[w] = "cli_create_cluster"

CliDeleting(w) == op[w] = "cli_delete_cluster"

\* a PCE POST, PUT or DELETE, or a vault store or delete
Mutating(call) ==
    \/ call.sys = "pce" /\ call.method \in {"POST", "PUT", "DELETE"}
    \/ call.sys = "vault" /\ call.method \in {"store_secret", "delete_secret_versions"}

\* C12: with --dry-run, create-cluster and delete-cluster issue no mutating
\* call (no PCE POST, PUT or DELETE, no vault store or delete); create-cluster
\* issues at most its existence read and delete-cluster issues nothing.
C12_DryRunIssuesNoMutatingCall ==
    \A w \in Workers :
        ((CliCreating(w) \/ CliDeleting(w)) /\ arg[w].dry_run) =>
            /\ \A i \in 1..Len(log[w]) : ~Mutating(log[w][i])
            /\ CliCreating(w) => log[w] = <<ListByName(arg[w].name)>>
            /\ CliDeleting(w) => log[w] = <<>>
            /\ pc[w] = "done"

\* delete-cluster --dry-run on a registered cluster has returned
C12_Witness ==
    /\ CliDeleting("w1")
    /\ arg["w1"].dry_run
    /\ pc["w1"] = "done"
    /\ out["w1"].kind = "return"
    /\ \E c \in clusters : c.name = arg["w1"].name

\* C20: the mode create-cluster passes to create_cluster is a member of
\* IllumioEnforcementMode for --enforce and for --no-enforce, and a
\* create-cluster without --dry-run whose read found no cluster of a valid name
\* goes on to the creation POST.
C20_CliCreateReachesPost ==
    \A w \in Workers :
        (CliCreating(w) /\ ~arg[w].dry_run /\ is_valid_cluster_name(arg[w].name)
            /\ loc[w].resp # None
            /\ FirstExact(loc[w].resp.items, arg[w].name) = None)
          => /\ CliEnforcementMode(arg[w].enforce).s \in EnforcementModes
             /\ has_value(CliEnforcementMode(arg[w].enforce))
             /\ pc[w] = "cli_create_post"

\* C13: get_cluster reports absence only after a list query that succeeded and
\* listed no record of exactly that name; when the query fails, in transport,
\* by status or in decoding, get_cluster raises IllumioError.
C13_GetClusterFailureIsNotAbsence ==
    \A w \in Workers :
        (Getting(w) /\ pc[w] = "done") =>
            /\ out[w] = Returned(None)
                  => /\ loc[w].resp # None
                     /\ Matching(loc[w].resp.items, arg[w].name) = {}
            /\ loc[w].resp = None
                  => /\ out[w].kind = "raise"
                     /\ out[w].exc = "IllumioError"
                     /\ out[w].cause \in APIFailures

\* the list query failed to decode and get_cluster raised
C13_Witness ==
    \E w \in Workers :
        /\ Getting(w)
        /\ pc[w] = "done"
        /\ loc[w].resp = None
        /\ out[w] = Raised("IllumioError", "APIConnectionError")

\* C14: the Label that get_or_create_label(k, v) returns has key k and value v,
\* whether it was read or created.
C14_ReturnedLabelHasKeyAndValue ==
    \A w \in Workers :
        (GettingLabel(w) /\ pc[w] = "done" /\ out[w].kind = "return") =>
            /\ out[w].val.key = arg[w].key
            /\ out[w].val.value = arg[w].value

\* the calls of the log that go to that system
CallsTo(w, sys) == { i \in 1..Len(log[w]) : log[w][i].sys = sys }

\* C15: a create_cluster invocation that returns has issued exactly one PCE
\* request and exactly one vault store call.
C15_CreateIssuesOneRequestOneStore ==
    \A w \in Workers :
        (Creating(w) /\ pc[w] = "done" /\ out[w].kind = "return") =>
            /\ Cardinality(CallsTo(w, "pce")) = 1
            /\ Cardinality(CallsTo(w, "vault")) = 1

(***************************************************************************)
(* Properties of the clients.                                              *)
(***************************************************************************)
Requesting(w) == op[w] = "request"

\* what the network gave to the latest attempt
LastAnswer(w) == log[w][Len(log[w])].arg

Success2xx(answer) == answer.net = "ok" /\ answer.status >= 200 /\ answer.status < 300

\* a transport error or a success body that is not JSON
ConnectivityFailure(answer) ==
    \/ answer.net # "ok"
    \/ Success2xx(answer) /\ answer.body = "text"

\* a response of a status that is not 2xx
StatusFailure(answer) == answer.net = "ok" /\ ~Success2xx(answer)

\* C16: request raises AuthenticationError for a 401 response, APIError carrying
\* the status code and the body for a response of any other non-2xx status, and
\* APIConnectionError for a transport error and for a 2xx body that is not JSON.
C16_FailuresAreDistinguished ==
    \A w \in Workers :
        (Requesting(w) /\ pc[w] = "done") =>
            LET a == LastAnswer(w) IN
            /\ (a.net = "ok" /\ a.status = 401)
                  => /\ out[w].kind = "raise"
                     /\ out[w].exc = "AuthenticationError"
            /\ (StatusFailure(a) /\ a.status # 401)
                  => /\ out[w].kind = "raise"
                     /\ out[w].exc = "APIError"
                     /\ out[w].cause = [status_code |-> a.status, response |-> a.body]
            /\ ConnectivityFailure(a)
                  => /\ out[w].kind = "raise"
                     /\ out[w].exc = "APIConnectionError"

\* C17: one call of request makes at most 3 attempts; every attempt but the
\* latest ended in a connectivity failure (a transport error or a 2xx body that
\* is not JSON), never in a 401 or another non-2xx status; it returns on the
\* first attempt that succeeds and raises the connectivity failure once the
\* third attempt has failed so.
C17_ReattemptsOnlyConnectivityFailures ==
    \A w \in Workers :
        (Requesting(w) /\ log[w] # <<>>) =>
            LET a == LastAnswer(w) IN
            /\ Len(log[w]) <= max_attempts
            /\ \A i \in 1..(Len(log[w]) - 1) :
                  /\ ConnectivityFailure(log[w][i].arg)
                  /\ ~StatusFailure(log[w][i].arg)
            /\ pc[w] = "retry" => ConnectivityFailure(a) /\ Len(log[w]) < max_attempts
            /\ pc[w] = "done" =>
                  /\ out[w].kind = "return" <=> (Success2xx(a) /\ a.body # "text")
                  /\ ConnectivityFailure(a)
                        => /\ Len(log[w]) = max_attempts
                           /\ out[w].exc = "APIConnectionError"

\* What the decorator does hold to: another attempt follows only an attempt
\* that raised APIConnectionError, there are at most max_attempts of them, and
\* the call ends with the outcome of the latest.
RetryOnlyAfterAPIConnectionError ==
    \A w \in Workers :
        (Requesting(w) /\ log[w] # <<>>) =>
            /\ Len(log[w]) <= max_attempts
            /\ \A i \in 1..(Len(log[w]) - 1) :
                  request_once(log[w][i].arg) = Raised("APIConnectionError",
                                                       request_once(log[w][i].arg).cause)
            /\ pc[w] = "done" =>
                  /\ out[w] = request_once(LastAnswer(w))
                  /\ (out[w].kind = "raise" /\ out[w].exc = "APIConnectionError")
                        => Len(log[w]) = max_attempts

UsingVault(w) == op[w] \in VaultOps

\* the backend call failed: it raised, and not the InvalidPath that get_secret
\* takes for an absent secret
BackendFailed(operation, answer) ==
    /\ answer # "ok"
    /\ ~(operation = "get_secret" /\ answer = "hvac.InvalidPath")

\* C18: each of store_secret, get_secret, delete_secret_versions and
\* list_secrets, when the backend fails on every attempt, has made 3 attempts
\* and raises VaultError, whatever the backend raised.
C18_VaultOperationsRetryAndRaiseVaultError ==
    \A w \in Workers :
        (UsingVault(w) /\ pc[w] = "done"
            /\ \A i \in 1..Len(log[w]) : BackendFailed(op[w], log[w][i].arg))
          => /\ Len(log[w]) = max_attempts
             /\ out[w].kind = "raise"
             /\ out[w].exc = "VaultError"

(***************************************************************************)
(* Properties of update_cluster_labels.                                    *)
(***************************************************************************)
Updating(w) == op[w] = "update_cluster_labels"

\* C19: update_cluster_labels(name, labels) issues the lookup first; when the
\* lookup lists no cluster of exactly that name it raises ClusterOperationError
\* with no PUT; when it finds one it issues, after the lookup, exactly one PUT,
\* of the replacement labels, to the resource of the cluster found.
C19_UpdatePutsOnlyToExistingCluster ==
    \A w \in Workers :
        (Updating(w) /\ loc[w].resp # None) =>
            LET name == arg[w].name
                found == FirstExact(loc[w].resp.items, name)
            IN  /\ found = None
                      => /\ pc[w] = "done"
                         /\ log[w] = <<ListByName(name)>>
                         /\ out[w].kind = "raise"
                         /\ out[w].exc = "ClusterOperationError"
                /\ found # None
                      => /\ pc[w] \in {"update_put", "done"}
                         /\ pc[w] = "update_put" => log[w] = <<ListByName(name)>>
                         /\ pc[w] = "done" =>
                               log[w] = <<ListByName(name),
                                          PceCall("PUT",
                                                  <<"container_clusters",
                                                    LastSegment(found.href)>>,
                                                  arg[w].labels)>>

\* the labels of a cluster listed after a near-match were replaced
C19_Witness ==
    \E w \in Workers :
        /\ Updating(w)
        /\ pc[w] = "done"
        /\ out[w].kind = "return"
        /\ arg[w].labels = <<"l1", "l2">>
        /\ Len(loc[w].resp.items) = 2
        /\ loc[w].resp.items[1].name # arg[w].name
        /\ \E c \in clusters : c.name = arg[w].name /\ c.labels = <<"l1", "l2">>

(***************************************************************************)
(* Order of the calls of create_cluster.                                   *)
(***************************************************************************)
\* the four calls of a whole create_cluster(name), the pairing key asked of profile pid
CreateCalls(name, pid) ==
    << CreationPost(name),
       PceCall("POST", <<"pairing_profiles">>, name \o <<"-", "p", "r", "o", "f", "i", "l", "e">>),
       PceCall("POST", <<"pairing_profiles", pid, "pairing_key">>, <<>>),
       VaultCall("store_secret", <<"clusters", name>>) >>

\* C21: the calls of create_cluster are, in this order, the cluster-creation
\* POST, the pairing-profile POST named "{cluster}-profile", the pairing-key
\* POST for the profile just created and the SecretStore write; a call is
\* issued only when the one before it succeeded (the cluster, the profile id,
\* the activation code are in hand), so a SecretStore write is in the log
\* only after three PCE calls that all succeeded.
C21_CreateCallsInOrder ==
    \A w \in Workers :
        Creating(w) =>
            /\ \E pid \in PairingProfileIds \cup {loc[w].profile_id} :
                   IsPrefix(log[w], CreateCalls(arg[w].name, pid))
            /\ Len(log[w]) >= 2 =>
                   /\ loc[w].cluster # None
                   /\ loc[w].cluster.name = arg[w].name
                   /\ \E c \in clusters : c.href = loc[w].cluster.href
            /\ Len(log[w]) >= 3 =>
                   /\ loc[w].profile_id \in PairingProfileIds
                   /\ log[w][3].endpoint[2] = loc[w].profile_id
            /\ Len(log[w]) >= 4 => loc[w].pairing_key \in ActivationCodes
            /\ (\E i \in 1..Len(log[w]) : log[w][i].sys = "vault") =>
                   /\ Len(log[w]) = 4
                   /\ \A i \in 1..3 : log[w][i].sys = "pce" /\ log[w][i].method = "POST"
                   /\ loc[w].cluster # None
                   /\ loc[w].profile_id \in PairingProfileIds
                   /\ loc[w].pairing_key \in ActivationCodes

\* a creation that ran to its SecretStore write and returned
C21_Witness ==
    /\ Creating("w1")
    /\ pc["w1"] = "done"
    /\ out["w1"].kind = "return"
    /\ Len(log["w1"]) = 4
    /\ log["w1"][4].sys = "vault"

(***************************************************************************)
(* Failures inside delete_cluster.                                         *)
(***************************************************************************)
\* the third call of a deletion was made and did not take the secret away, or raised
SecretDeleteFailed(w) ==
    /\ Deleting(w)
    /\ pc[w] = "done"
    /\ Len(log[w]) = 3
    /\ log[w][3].sys = "vault"
    /\ \/ out[w].kind = "raise"
       \/ <<"clusters", arg[w].name>> \in DOMAIN vault

\* C22: when the SecretStore delete fails after the PCE delete succeeded,
\* delete_cluster raises ClusterOperationError caused by the vault failure
\* (it returns neither true nor false), the cluster it deleted stays deleted
\* and the invocation made no call besides the lookup and the two deletes.
C22_SecretDeleteFailureRaises ==
    \A w \in Workers :
        SecretDeleteFailed(w) =>
            /\ out[w].kind = "raise"
            /\ out[w].exc = "ClusterOperationError"
            /\ out[w].cause \in VaultFailures
            /\ ~ \E c \in clusters : c.href = loc[w].cluster.href
            /\ log[w] = DeleteCalls(arg[w].name, loc[w].cluster.href)
            /\ \A i \in 1..Len(log[w]) : log[w][i].method \notin {"POST", "PUT"}

\* a deletion whose secret delete failed: the secret is still stored
C22_Witness ==
    /\ SecretDeleteFailed("w1")
    /\ out["w1"].kind = "raise"
    /\ <<"clusters", arg["w1"].name>> \in DOMAIN vault

\* create_cluster got its cluster from the creation POST and then failed at
\* a later step, or stands between two of the later steps
CreatedThenStopped(w) ==
    /\ Creating(w)
    /\ loc[w].cluster # None
    /\ \/ pc[w] \in {"pairing_profile", "pairing_key", "store_secret"}
       \/ pc[w] = "done" /\ out[w].kind = "raise"

\* C23: once the creation POST succeeded, a create_cluster that fails at a
\* later step (pairing profile, pairing key, secret write) or stops between
\* those steps has issued no compensating call (its calls are only the POSTs
\* and the secret write of the creation itself, never a DELETE), the PCE
\* cluster it created remains, and the SecretStore holds no entry for that
\* cluster.
C23_NoCompensationAfterCreationPost ==
    \A w \in Workers :
        CreatedThenStopped(w) =>
            /\ \E c \in clusters :
                   c.href = loc[w].cluster.href /\ c.name = arg[w].name
            /\ \A p \in DOMAIN vault :
                   vault[p].cluster_id # LastSegment(loc[w].cluster.href)
            /\ \A i \in 1..Len(log[w]) : log[w][i].method \notin {"DELETE", "PUT"}
            /\ \E pid \in PairingProfileIds :
                   IsPrefix(log[w], CreateCalls(arg[w].name, pid))

\* the secret write failed after the cluster, the profile and the key were made
C23_Witness ==
    /\ CreatedThenStopped("w1")
    /\ pc["w1"] = "done"
    /\ Len(log["w1"]) = 4
    /\ out["w1"].cause \in VaultFailures

(***************************************************************************)
(* Properties of concurrent creations.                                     *)
(***************************************************************************)
\* the existence read of a create-cluster command without --dry-run listed no
\* cluster of its name
ObservedAbsent(w) ==
    /\ CliCreating(w)
    /\ ~arg[w].dry_run
    /\ loc[w].resp # None
    /\ FirstExact(loc[w].resp.items, arg[w].name) = None

ReadEmpty(w) == GettingLabel(w) /\ loc[w].resp = Listed(<<>>)

LabelsOf(key, value) == { l \in labels : l.key = key /\ l.value = value }

\* C25: two concurrent get_or_create_label calls with one key and value that
\* both read an empty result both go on to the creation POST, whatever the
\* other has done; when both creations are accepted the PCE holds two labels
\* with that key and value, and each call returns the one it created.
C25_ConcurrentCallsCreateDuplicateLabels ==
    \A w \in Workers, v \in Workers :
        (w # v /\ ReadEmpty(w) /\ ReadEmpty(v) /\ arg[w] = arg[v]) =>
            /\ \/ pc[w] = "create_label" /\ log[w] = <<LabelQuery(arg[w].key, arg[w].value)>>
               \/ pc[w] = "done" /\ log[w] = <<LabelQuery(arg[w].key, arg[w].value),
                                               LabelPost(arg[w].key, arg[w].value)>>
            /\ (pc[w] = "done" /\ pc[v] = "done"
                  /\ out[w].kind = "return" /\ out[v].kind = "return")
                 => /\ Cardinality(LabelsOf(arg[w].key, arg[w].value)) >= 2
                    /\ out[w].val \in labels
                    /\ out[v].val \in labels
                    /\ out[w].val.href # out[v].val.href

\* both calls read nothing, both created, and the PCE holds two equal labels
C25_Witness ==
    /\ ReadEmpty("w1") /\ ReadEmpty("w2")
    /\ arg["w1"] = arg["w2"]
    /\ pc["w1"] = "done" /\ pc["w2"] = "done"
    /\ out["w1"].kind = "return" /\ out["w2"].kind = "return"
    /\ Cardinality(LabelsOf(arg["w1"].key, arg["w1"].value)) = 2

\* no cluster of that name is registered in the PCE
ClusterGone(name) == ~ \E c \in clusters : c.name = name

SecretDeleteCall(name) == VaultCall("delete_secret_versions", <<"clusters", name>>)

\* what holds of a deletion in every state
SecretDeleteFollowsPceDelete ==
    \A w \in Workers :
        Deleting(w) =>
            /\ (\E i \in 1..Len(log[w]) : log[w][i].sys = "vault") =>
                   /\ loc[w].cluster # None
                   /\ log[w] = DeleteCalls(arg[w].name, loc[w].cluster.href)
                   /\ ~ \E c \in clusters : c.href = loc[w].cluster.href
            /\ (pc[w] = "done" /\ out[w].kind = "return" /\ Len(log[w]) = 1) =>
                   /\ out[w].val = [result |-> FALSE]
                   /\ log[w] = <<ListByName(arg[w].name)>>
            /\ (pc[w] = "done" /\ out[w].kind = "return" /\ ClusterGone(arg[w].name)
                    /\ <<"clusters", arg[w].name>> \in DOMAIN vault) =>
                   /\ out[w].val = [result |-> FALSE]
                   /\ log[w] = <<ListByName(arg[w].name)>>

\* the only step that takes an entry out of the SecretStore is the third call
\* of a deletion that has just deleted its cluster from the PCE
SecretRemovedOnlyByThatStep ==
    \A p \in DOMAIN vault :
        p \notin DOMAIN vault' =>
            \E w \in Workers :
                /\ Deleting(w)
                /\ pc[w] = "delete_secret"
                /\ pc'[w] = "done"
                /\ p = <<"clusters", arg[w].name>>
                /\ Len(log[w]) = 2
                /\ log[w][2].method = "DELETE"
                /\ ~ \E c \in clusters : c.href = loc[w].cluster.href

\* C26: delete_cluster issues the SecretStore delete only as the third call of
\* an invocation that looked the cluster up and deleted it from the PCE. When
\* the cluster is gone from the PCE and its secret remains, a delete_cluster
\* of that name that returns returns false after one GET and no secret
\* delete, and no step of the service removes the entry at clusters/{name}
\* other than that third call.
C26_SecretDeleteOnlyAfterPceDelete ==
    /\ []SecretDeleteFollowsPceDelete
    /\ [][SecretRemovedOnlyByThatStep]_vars

\* the cluster is gone, its secret is left, and a later deletion returned false
C26_Witness ==
    /\ Deleting("w1")
    /\ pc["w1"] = "done"
    /\ out["w1"] = Returned([result |-> FALSE])
    /\ ClusterGone(arg["w1"].name)
    /\ <<"clusters", arg["w1"].name>> \in DOMAIN vault

\* the step in which worker w issues the PCE DELETE and the cluster stays registered
PceDeleteFails(w) ==
    /\ Deleting(w)
    /\ pc[w] = "delete_pce"
    /\ pc'[w] # "delete_pce"
    /\ clusters' = clusters

\* C27: when the PCE DELETE of delete_cluster fails, the invocation ends there
\* with ClusterOperationError caused by the API failure: its calls are the
\* lookup and the DELETE, no SecretStore delete is issued, and the vault,
\* with the entry at clusters/{name}, is as it was.
C27_PceDeleteFailureLeavesSecret ==
    [][ \A w \in Workers :
          PceDeleteFails(w) =>
              /\ pc'[w] = "done"
              /\ out'[w].kind = "raise"
              /\ out'[w].exc = "ClusterOperationError"
              /\ out'[w].cause \in APIFailures
              /\ Len(log'[w]) = 2
              /\ \A i \in 1..Len(log'[w]) : log'[w][i].sys = "pce"
              /\ vault' = vault ]_vars

\* the PCE DELETE failed while the cluster's secret was stored
C27_Witness ==
    /\ Deleting("w1")
    /\ pc["w1"] = "done"
    /\ out["w1"].kind = "raise"
    /\ Len(log["w1"]) = 2
    /\ log["w1"][2].method = "DELETE"
    /\ <<"clusters", arg["w1"].name>> \in DOMAIN vault
    /\ \E c \in clusters : c.href = loc["w1"].cluster.href

(***************************************************************************)
(* Properties of the creation POST on the wire.                            *)
(***************************************************************************)
PostingCluster(w) == op[w] = "create_cluster_post"

\* the attempts of this invocation that the PCE processed
ProcessedAttempts(w) == { i \in 1..Len(log[w]) : log[w][i].arg.processed }

\* C28: one create_cluster invocation sends the cluster-creation POST to the
\* PCE at most once and so creates at most one cluster, also when an attempt
\* ends in a timeout or in a success whose body is not JSON.
C28_CreationPostDeliveredOnce ==
    \A w \in Workers :
        PostingCluster(w) =>
            /\ Len(log[w]) <= 1
            /\ Cardinality(ProcessedAttempts(w)) <= 1

(***************************************************************************)
(* Properties of the repeated sync.                                        *)
(***************************************************************************)
\* the namespaces of the input that match the naming pattern
ValidInput(w) == { ns \in Range(arg[w].namespaces) : NameCore(ns) }

\* what holds of a sync in every state: a creation POST whose namespace left
\* the set still to do was accepted and its profile is there; a POST whose
\* namespace is still in that set is the last call, the one that failed and
\* ended the invocation; every POST is for an input namespace that the
\* invocation's own read did not list
PartWayFailureKeepsProfiles ==
    \A w \in Workers :
        Syncing(w) =>
            /\ \A i \in 2..Len(log[w]) :
                  /\ log[w][i].method = "POST"
                  /\ log[w][i].arg \in Range(arg[w].namespaces) \ loc[w].existing
                  /\ log[w][i].arg \notin loc[w].todo => ProfileCount(log[w][i].arg) >= 1
                  /\ log[w][i].arg \in loc[w].todo =>
                        /\ i = Len(log[w])
                        /\ pc[w] = "done"
                        /\ out[w].kind = "raise"
            /\ \A ns \in loc[w].existing : ProfileCount(ns) >= 1
            /\ (pc[w] = "done" /\ out[w].kind = "raise") =>
                  \A ns \in loc[w].todo :
                      \A i \in 2..(Len(log[w]) - 1) : log[w][i].arg # ns

\* a step in which a call to the PCE fails: the profile listing or a creation POST
BackendFails ==
    \/ /\ pc["w1"] \in {"idle", "done"}
       /\ pc'["w1"] = "done"
       /\ out'["w1"].kind = "raise"
    \/ /\ pc["w1"] = "sync_create"
       /\ pc'["w1"] = "done"
       /\ out'["w1"].kind = "raise"
       /\ log'["w1"] # log["w1"]

BackendStopsFailing == <>[][~BackendFails]_vars

\* every valid input namespace has a profile and the invocation at hand has
\* sent no creation POST
Settled ==
    /\ Syncing("w1")
    /\ \A ns \in ValidInput("w1") : ProfileCount(ns) >= 1
    /\ \A i \in 1..Len(log["w1"]) : log["w1"][i].method # "POST"

AllInputValid == Syncing("w1") /\ ValidInput("w1") = Range(arg["w1"].namespaces)

\* C29: a sync that fails part-way keeps the profiles it created and attempts
\* no further namespace; a repeated call posts only for input namespaces its
\* own read did not list; and once the PCE stops failing, repeating the call
\* with the same input reaches, and stays in, a state where every valid input
\* namespace has a profile and invocations send no creation POST.
C29_RepeatedSyncSettles ==
    /\ []PartWayFailureKeepsProfiles
    /\ BackendStopsFailing => <>[]Settled

\* C29, for inputs all of whose namespaces match the naming pattern: the same
\* safety, and once the PCE stops failing the repeated call settles.
C29_RepeatedSyncOfValidInputSettles ==
    /\ []PartWayFailureKeepsProfiles
    /\ BackendStopsFailing => <>[](AllInputValid => Settled)

\* a repeated sync of two valid namespaces found the one its failed
\* predecessor had created, created the other and returned
C29_Witness ==
    /\ AllInputValid
    /\ pc["w1"] = "done"
    /\ out["w1"].kind = "return"
    /\ Cardinality(ValidInput("w1")) = 2
    /\ loc["w1"].existing \cap ValidInput("w1") # {}
    /\ Len(log["w1"]) = 2
    /\ \A ns \in ValidInput("w1") : ProfileCount(ns) = 1

(***************************************************************************)
(* Properties of re-running create-cluster.                                *)
(***************************************************************************)
\* the existence read of a create-cluster command listed a cluster of its name
FoundExisting(w) ==
    /\ CliCreating(w)
    /\ loc[w].resp # None
    /\ FirstExact(loc[w].resp.items, arg[w].name) # None

\* a create-cluster command that finds a cluster of its name stops after the
\* read: it sends no cluster-creation and no profile-creation request
RerunStopsAtExistingCluster ==
    \A w \in Workers :
        FoundExisting(w) =>
            /\ pc[w] = "done"
            /\ out[w].kind = "return" => out[w] = Returned(None)
            /\ log[w] = <<ListByName(arg[w].name)>>

====
